---- MODULE Spec2Model ----
(***************************************************************************)
(* Generic paths of cbindgen: src/bindgen/ir/generic_path.rs.              *)
(*                                                                         *)
(* GenericParams (the type parameters of a declaration, and the template   *)
(* header they are written as) and GenericPath (a named type with its      *)
(* generic arguments): construction from a syn path (load), and the three  *)
(* passes replace_self_with, rename_for_config, resolve_declaration_types. *)
(*                                                                         *)
(* Three specifications share the variables:                               *)
(*   SpecLoad   a syn path is loaded;                                      *)
(*   Spec       a loaded GenericPath goes through the passes, in any order;*)
(*   SpecWrite  a GenericParams is built from syn generics and written.    *)
(***************************************************************************)
EXTENDS Naturals, Sequences, FiniteSets, TLC

VARIABLES
    pc,         \* position of the driver: which operation ran last
    input,      \* the syn::Path handed to GenericPath::load
    result,     \* what GenericPath::load returned (a Result)
    gp,         \* the GenericPath the passes mutate in place
    env,        \* self_ty, config.export, generic_params and resolver of the run
    history,    \* the passes applied to gp so far, oldest first
    generics,   \* the syn::Generics handed to GenericParams::new
    language,   \* config.language
    params,     \* the GenericParams built by GenericParams::new
    out         \* what the SourceWriter received, in order

vars == <<pc, input, result, gp, env, history, generics, language, params, out>>

----------------------------------------------------------------------------
(* Bounds of the model.                                                    *)

\* Most nodes (segments and generic arguments) of a syn path that is loaded.
MaxSize == 3
\* Most passes applied to one GenericPath.
MaxOps == 3
\* Most generic parameters of a declaration.
MaxParams == 3

----------------------------------------------------------------------------
(* Values of the standard library: Option and Result.                      *)

None == [tag |-> "None"]
Some(x) == [tag |-> "Some", value |-> x]
Ok(x) == [tag |-> "Ok", value |-> x]
Err(e) == [tag |-> "Err", error |-> e]

----------------------------------------------------------------------------
(* Identifier paths (bindgen::ir::Path): a name, compared by the name.     *)

PathNew(name) == [name |-> name]
PathName(path) == path.name

\* The identifiers the model draws from.
Idents == {"Self", "PhantomData", "Foo", "T"}
\* A module qualifier, for the leading segment of a qualified path.
Qualifier == "marker"

----------------------------------------------------------------------------
(* The syn syntax tree of a path expression, as far as load reads it.      *)
(* A syn::Path is its segments; a segment is an identifier and its         *)
(* arguments: none, an angle-bracketed list of generic arguments, or a     *)
(* parenthesized list of input types.  A generic argument is a type, a     *)
(* lifetime, a const expression or an associated-type binding.  A type is  *)
(* a path, or a type Type::load cannot represent ("Unsupported": Type::load*)
(* fails), or a type of no size ("ZeroSized": Type::load succeeds with no  *)
(* value).                                                                 *)

NoPath == [segments |-> <<>>]
SynTypePath(p) == [tag |-> "Path", path |-> p]
SynTypeUnsupported == [tag |-> "Unsupported", path |-> NoPath]
SynTypeZeroSized == [tag |-> "ZeroSized", path |-> NoPath]

ArgType(ty) == [tag |-> "Type", ty |-> ty]
ArgLifetime == [tag |-> "Lifetime", ty |-> SynTypeUnsupported]
ArgConst == [tag |-> "Const", ty |-> SynTypeUnsupported]
ArgBinding == [tag |-> "Binding", ty |-> SynTypeUnsupported]

PathArgumentsNone == [tag |-> "None", args |-> <<>>]
AngleBracketed(args) == [tag |-> "AngleBracketed", args |-> args]
Parenthesized(inputs) == [tag |-> "Parenthesized", args |-> inputs]

Segment(ident, arguments) == [ident |-> ident, arguments |-> arguments]

\* The generic arguments that are leaves of the syntax tree.
LeafArgs ==
    {ArgLifetime, ArgConst, ArgBinding,
     ArgType(SynTypeUnsupported), ArgType(SynTypeZeroSized)}

\* The parenthesized argument lists the model draws from.
ParenthesizedLists ==
    {Parenthesized(<<>>), Parenthesized(<<ArgType(SynTypeUnsupported)>>)}

RECURSIVE SynPathsOfSize(_)
RECURSIVE SynArgsOfSize(_)
RECURSIVE SynArgListsOfSize(_)

\* The generic arguments of exactly n nodes.
SynArgsOfSize(n) ==
    (IF n = 1 THEN LeafArgs ELSE {})
        \cup {ArgType(SynTypePath(p)) : p \in SynPathsOfSize(n)}

\* The lists of generic arguments of exactly n nodes in all.
SynArgListsOfSize(n) ==
    IF n = 0
    THEN {<<>>}
    ELSE UNION {
            {<<a>> \o rest : a \in SynArgsOfSize(k),
                             rest \in SynArgListsOfSize(n - k)}
            : k \in 1..n}

\* The syn paths of exactly n nodes: a last segment with its arguments,
\* after an optional qualifier segment.
SynPathsOfSize(n) ==
    IF n = 0
    THEN {}
    ELSE LET lastSegments(m) ==
                 {Segment(id, AngleBracketed(args)) :
                      id \in Idents, args \in SynArgListsOfSize(m - 1)}
                 \cup (IF m = 1
                       THEN {Segment(id, a) :
                                id \in Idents,
                                a \in {PathArgumentsNone} \cup ParenthesizedLists}
                       ELSE {})
         IN  {[segments |-> <<s>>] : s \in lastSegments(n)}
             \cup (IF n >= 2
                   THEN {[segments |->
                             <<Segment(Qualifier, PathArgumentsNone), s>>] :
                            s \in lastSegments(n - 1)}
                   ELSE {})

RECURSIVE PlainSynPathsOfSize(_)
RECURSIVE PlainSynArgListsOfSize(_)

\* The lists of type arguments of exactly n nodes in all, every type a
\* plain path.
PlainSynArgListsOfSize(n) ==
    IF n = 0
    THEN {<<>>}
    ELSE UNION {
            {<<ArgType(SynTypePath(p))>> \o rest :
                 p \in PlainSynPathsOfSize(k),
                 rest \in PlainSynArgListsOfSize(n - k)}
            : k \in 1..n}

\* The plain syn paths of exactly n nodes: one segment, whose arguments, if
\* any, are angle-bracketed types that are plain paths.
PlainSynPathsOfSize(n) ==
    IF n = 0
    THEN {}
    ELSE IF n = 1
         THEN {[segments |-> <<Segment(id, PathArgumentsNone)>>] :
                  id \in Idents}
         ELSE {[segments |-> <<Segment(id, AngleBracketed(args))>>] :
                  id \in Idents, args \in PlainSynArgListsOfSize(n - 1)}

----------------------------------------------------------------------------
(* The type tree (bindgen::ir::Type), as far as a GenericPath reaches it:  *)
(* the variant that holds a GenericPath.                                   *)

TypePath(generic_path) == [tag |-> "Path", generic_path |-> generic_path]

----------------------------------------------------------------------------
(* GenericPath.                                                            *)

\* GenericPath::new: the export name starts as the path's name, ctype as None.
GenericPath_new(path, generic_args) ==
    [path |-> path,
     export_name |-> PathName(path),
     generics |-> generic_args,
     ctype |-> None]

\* The errors of load.
ParenthesesError == [msg |-> "Path contains parentheses.", arg |-> None]
CantHandleError(x) == [msg |-> "can't handle generic argument", arg |-> Some(x)]
UnsupportedTypeError == [msg |-> "Unsupported type.", arg |-> None]

\* IterHelpers::try_skip_map, over the results f gives for the items, in
\* order: the first Err is returned (f is not called on the items after
\* it, which shows nowhere as f has no effect); otherwise the values of the
\* Some results, in order, the None results skipped.
RECURSIVE try_skip_map(_)
try_skip_map(results) ==
    IF results = <<>>
    THEN Ok(<<>>)
    ELSE LET r == Head(results)
         IN  IF r.tag = "Err"
             THEN r
             ELSE LET rest == try_skip_map(Tail(results))
                  IN  IF rest.tag = "Err"
                      THEN rest
                      ELSE IF r.value.tag = "Some"
                           THEN Ok(<<r.value.value>> \o rest.value)
                           ELSE rest

RECURSIVE load(_)
RECURSIVE Type_load(_)

\* Type::load: Result<Option<Type>, String>.  A path type is loaded by
\* GenericPath::load, whose failure is returned as it is.
Type_load(ty) ==
    CASE ty.tag = "Path" ->
            LET r == load(ty.path)
            IN  IF r.tag = "Err" THEN r ELSE Ok(Some(TypePath(r.value)))
      [] ty.tag = "ZeroSized" -> Ok(None)
      [] OTHER -> Err(UnsupportedTypeError)

\* LoadGenericArgument with the arguments that are neither types nor
\* lifetimes skipped like lifetimes.
LoadGenericArgument_SkipOthers(x) ==
    CASE x.tag = "Type" -> Type_load(x.ty)
      [] OTHER -> Ok(None)

\* The closure load hands to try_skip_map.
LoadGenericArgument(x) ==
    CASE x.tag = "Type" -> Type_load(x.ty)
      [] x.tag = "Lifetime" -> Ok(None)
      [] OTHER -> Err(CantHandleError(x))

\* load with a parenthesized argument list read as no arguments.
load_ParenthesizedAsNone(path) ==
    LET last_segment == path.segments[Len(path.segments)]
        p == PathNew(last_segment.ident)
    IN  IF p = PathNew("PhantomData")
        THEN Ok(GenericPath_new(p, <<>>))
        ELSE CASE last_segment.arguments.tag = "AngleBracketed" ->
                    LET args == last_segment.arguments.args
                        loaded == try_skip_map(
                            [i \in DOMAIN args |-> LoadGenericArgument(args[i])])
                    IN  IF loaded.tag = "Err"
                        THEN loaded
                        ELSE Ok(GenericPath_new(p, loaded.value))
               [] OTHER -> Ok(GenericPath_new(p, <<>>))

\* load with the PhantomData case decided after the arguments are loaded.
load_PhantomDataLast(path) ==
    LET last_segment == path.segments[Len(path.segments)]
        p == PathNew(last_segment.ident)
        loaded ==
            CASE last_segment.arguments.tag = "AngleBracketed" ->
                    LET args == last_segment.arguments.args
                    IN  try_skip_map(
                            [i \in DOMAIN args |-> LoadGenericArgument(args[i])])
              [] last_segment.arguments.tag = "Parenthesized" ->
                    Err(ParenthesesError)
              [] OTHER -> Ok(<<>>)
    IN  IF loaded.tag = "Err"
        THEN loaded
        ELSE IF p = PathNew("PhantomData")
             THEN Ok(GenericPath_new(p, <<>>))
             ELSE Ok(GenericPath_new(p, loaded.value))

\* GenericPath::load.
load(path) ==
    LET last_segment == path.segments[Len(path.segments)]
        name == last_segment.ident
        p == PathNew(name)
        phantom_data_path == PathNew("PhantomData")
    IN  IF p = phantom_data_path
        THEN Ok(GenericPath_new(p, <<>>))
        ELSE CASE last_segment.arguments.tag = "AngleBracketed" ->
                    LET args == last_segment.arguments.args
                        loaded == try_skip_map(
                            [i \in DOMAIN args |-> LoadGenericArgument(args[i])])
                    IN  IF loaded.tag = "Err"
                        THEN loaded
                        ELSE Ok(GenericPath_new(p, loaded.value))
               [] last_segment.arguments.tag = "Parenthesized" ->
                    Err(ParenthesesError)
               [] OTHER -> Ok(GenericPath_new(p, <<>>))

----------------------------------------------------------------------------
(* The collaborators of the passes.                                        *)

\* Path::replace_self_with: a path named Self becomes self_ty, and the call
\* says whether it did.
Path_replace_self_with(path, self_ty) ==
    IF PathName(path) # "Self"
    THEN [replaced |-> FALSE, path |-> path]
    ELSE [replaced |-> TRUE, path |-> self_ty]

\* config.export: the renaming rules, a set of <<from, to>> pairs with at
\* most one pair per name, and a prefix put before every name.
ExportConfig(rename, prefix) == [rename |-> rename, prefix |-> prefix]

\* config.export.rename(name): the name the rules give, after the prefix.
ExportConfig_rename(export, item_name) ==
    LET renamed ==
            IF \E e \in export.rename : e[1] = item_name
            THEN (CHOOSE e \in export.rename : e[1] = item_name)[2]
            ELSE item_name
    IN  export.prefix \o renamed

\* generic_params.contains(path), GenericParams being a slice of paths.
GenericParams_contains(generic_params, path) ==
    \E i \in DOMAIN generic_params : generic_params[i] = path

\* DeclarationTypeResolver::type_for: the kind the resolver holds for the
\* path, if any.  The resolver is a set of <<path, kind>> pairs with at most
\* one pair per path.
type_for(resolver, path) ==
    IF \E e \in resolver : e[1] = path
    THEN Some((CHOOSE e \in resolver : e[1] = path)[2])
    ELSE None

----------------------------------------------------------------------------
(* The passes of GenericPath.                                              *)

RECURSIVE replace_self_with(_, _)
RECURSIVE Type_replace_self_with(_, _)
RECURSIVE rename_for_config(_, _, _)
RECURSIVE Type_rename_for_config(_, _, _)

\* Type::replace_self_with, on the variant that holds a GenericPath.
Type_replace_self_with(ty, self_ty) ==
    TypePath(replace_self_with(ty.generic_path, self_ty))

\* replace_self_with that does not resynchronize the export name.
replace_self_with_StaleName(self, self_ty) ==
    LET r == Path_replace_self_with(self.path, self_ty)
    IN  [self EXCEPT
            !.path = r.path,
            !.generics = [i \in DOMAIN @ |->
                             Type_replace_self_with(@[i], self_ty)]]

\* replace_self_with that does not descend into the generic arguments.
replace_self_with_RootOnly(self, self_ty) ==
    LET r == Path_replace_self_with(self.path, self_ty)
    IN  [self EXCEPT
            !.path = r.path,
            !.export_name = IF r.replaced THEN PathName(self_ty) ELSE @]

\* replace_self_with that descends into the generic arguments only when the
\* path was not replaced.
replace_self_with_DescendElse(self, self_ty) ==
    LET r == Path_replace_self_with(self.path, self_ty)
    IN  [self EXCEPT
            !.path = r.path,
            !.export_name = IF r.replaced THEN PathName(self_ty) ELSE @,
            !.generics = IF r.replaced
                         THEN @
                         ELSE [i \in DOMAIN @ |->
                                  Type_replace_self_with(@[i], self_ty)]]

\* GenericPath::replace_self_with.
replace_self_with(self, self_ty) ==
    LET r == Path_replace_self_with(self.path, self_ty)
    IN  [self EXCEPT
            !.path = r.path,
            !.export_name = IF r.replaced THEN PathName(self_ty) ELSE @,
            !.generics = [i \in DOMAIN @ |->
                             Type_replace_self_with(@[i], self_ty)]]

\* Type::rename_for_config, on the variant that holds a GenericPath.
Type_rename_for_config(ty, config, generic_params) ==
    TypePath(rename_for_config(ty.generic_path, config, generic_params))

\* rename_for_config that renames whether or not the path is a generic
\* parameter.
rename_for_config_NoGuard(self, config, generic_params) ==
    [self EXCEPT
        !.generics = [i \in DOMAIN @ |->
                         Type_rename_for_config(@[i], config, generic_params)],
        !.export_name = ExportConfig_rename(config.export, @)]

\* GenericPath::rename_for_config.
rename_for_config(self, config, generic_params) ==
    [self EXCEPT
        !.generics = [i \in DOMAIN @ |->
                         Type_rename_for_config(@[i], config, generic_params)],
        !.export_name =
            IF ~GenericParams_contains(generic_params, self.path)
            THEN ExportConfig_rename(config.export, @)
            ELSE @]

\* resolve_declaration_types that keeps a kind already resolved.
resolve_declaration_types_KeepKnown(self, resolver) ==
    IF self.ctype = None
    THEN [self EXCEPT !.ctype = type_for(resolver, self.path)]
    ELSE self

\* resolve_declaration_types that also resets the export name to the name
\* of the path.
resolve_declaration_types_ResetName(self, resolver) ==
    [self EXCEPT !.ctype = type_for(resolver, self.path),
                 !.export_name = PathName(self.path)]

\* GenericPath::resolve_declaration_types.
resolve_declaration_types(self, resolver) ==
    [self EXCEPT !.ctype = type_for(resolver, self.path)]

----------------------------------------------------------------------------
(* The runs the passes are checked in.                                     *)

\* The concrete paths Self is replaced with.
SelfTypes == {PathNew("Foo"), PathNew("T"), PathNew("Self")}

\* The configurations: one that renames Foo and leaves every other name, and
\* one that changes every name.
Configs ==
    {[export |-> ExportConfig({<<"Foo", "RenamedFoo">>}, "")],
     [export |-> ExportConfig({}, "cb_")]}

\* The generic parameter lists of the enclosing declaration.
GenericParamLists == {<<>>, <<PathNew("T")>>}

\* The resolvers: one that knows no path, one that knows Foo and T.
Resolvers ==
    {{}, {<<PathNew("Foo"), "Struct">>, <<PathNew("T"), "Enum">>}}

\* A run: its self type, configuration and generic parameters, and the
\* resolver of the latest resolve_declaration_types (none before the first).
Envs ==
    [self_ty : SelfTypes,
     config : Configs,
     generic_params : GenericParamLists,
     resolver : {{}}]

\* The GenericPaths load constructs from the plain syn paths of n nodes.
LoadedPaths(n) == {load(p).value : p \in PlainSynPathsOfSize(n)}

----------------------------------------------------------------------------
(* GenericParams.                                                          *)

\* The generic parameters of a declaration (syn::GenericParam): a type, a
\* lifetime or a const parameter, each with its identifier.
SynGenericParams ==
    {[tag |-> "Type", ident |-> "T"], [tag |-> "Type", ident |-> "U"],
     [tag |-> "Lifetime", ident |-> "a"], [tag |-> "Const", ident |-> "N"]}

RECURSIVE SeqsUpTo(_, _)
\* The sequences over S of at most n elements.
SeqsUpTo(S, n) ==
    IF n = 0
    THEN {<<>>}
    ELSE LET shorter == SeqsUpTo(S, n - 1)
         IN  shorter \cup {Append(q, x) : q \in shorter, x \in S}

\* config.language.
Languages == {"Cxx", "C"}

RECURSIVE GenericParams_new(_)
\* GenericParams::new: the paths of the type parameters, in order.
GenericParams_new(generic_params) ==
    IF generic_params = <<>>
    THEN <<>>
    ELSE LET x == Head(generic_params)
             rest == GenericParams_new(Tail(generic_params))
         IN  IF x.tag = "Type"
             THEN <<PathNew(x.ident)>> \o rest
             ELSE rest

RECURSIVE WriteItems(_, _, _)
\* The loop of write over the items from the i-th on (i counts from 0), on
\* the writer w.
WriteItems(self, i, w) ==
    IF i >= Len(self)
    THEN w
    ELSE LET sep == IF i # 0 THEN Append(w, ", ") ELSE w
         IN  WriteItems(self, i + 1,
                        Append(sep, "typename " \o PathName(self[i + 1])))

\* write that does not look at the language.
write_AnyLanguage(self, config_language, w) ==
    IF self # <<>>
    THEN Append(Append(WriteItems(self, 0, Append(w, "template<")), ">"), "\n")
    ELSE w

\* Source::write of GenericParams, on the writer w: each element of the
\* result is one write, and a new_line is the write of a line break.
write(self, config_language, w) ==
    IF self # <<>> /\ config_language = "Cxx"
    THEN Append(Append(WriteItems(self, 0, Append(w, "template<")), ">"), "\n")
    ELSE w

----------------------------------------------------------------------------
(* Placeholders for the variables a specification does not use.            *)

NoResult == [tag |-> "NotLoaded"]
NoGenericPath == GenericPath_new(PathNew(""), <<>>)
NoEnv == [tag |-> "NoEnv"]

----------------------------------------------------------------------------
(* SpecLoad: a syn path is loaded.                                         *)

InitLoad ==
    /\ pc = "start"
    /\ \E n \in 1..MaxSize : input \in SynPathsOfSize(n)
    /\ result = NoResult
    /\ gp = NoGenericPath
    /\ env = NoEnv
    /\ history = <<>>
    /\ generics = <<>>
    /\ language = "C"
    /\ params = <<>>
    /\ out = <<>>

Load ==
    /\ pc = "start"
    /\ result' = load(input)
    /\ pc' = "loaded"
    /\ UNCHANGED <<input, gp, env, history, generics, language, params, out>>

NextLoad == Load

SpecLoad == InitLoad /\ [][NextLoad]_vars

----------------------------------------------------------------------------
(* Spec: a loaded GenericPath goes through the passes, in any order, with  *)
(* the self type, configuration, generic parameters and resolver of the    *)
(* run.  result keeps the GenericPath as load constructed it.              *)

Init ==
    /\ pc = "loaded"
    /\ input = NoPath
    /\ \E n \in 1..MaxSize : gp \in LoadedPaths(n)
    /\ result = Ok(gp)
    /\ env \in Envs
    /\ history = <<>>
    /\ generics = <<>>
    /\ language = "C"
    /\ params = <<>>
    /\ out = <<>>

ReplaceSelfWith ==
    /\ pc = "loaded"
    /\ Len(history) < MaxOps
    /\ gp' = replace_self_with(gp, env.self_ty)
    /\ history' = Append(history, "replace_self_with")
    /\ UNCHANGED <<pc, input, result, env, generics, language, params, out>>

RenameForConfig ==
    /\ pc = "loaded"
    /\ Len(history) < MaxOps
    /\ gp' = rename_for_config(gp, env.config, env.generic_params)
    /\ history' = Append(history, "rename_for_config")
    /\ UNCHANGED <<pc, input, result, env, generics, language, params, out>>

ResolveDeclarationTypes ==
    /\ pc = "loaded"
    /\ Len(history) < MaxOps
    /\ \E resolver \in Resolvers :
          /\ gp' = resolve_declaration_types(gp, resolver)
          /\ env' = [env EXCEPT !.resolver = resolver]
    /\ history' = Append(history, "resolve_declaration_types")
    /\ UNCHANGED <<pc, input, result, generics, language, params, out>>

Next == ReplaceSelfWith \/ RenameForConfig \/ ResolveDeclarationTypes

Spec == Init /\ [][Next]_vars

----------------------------------------------------------------------------
(* SpecWrite: a GenericParams is built from the generic parameters of a    *)
(* declaration, then written.                                              *)

InitWrite ==
    /\ pc = "start"
    /\ input = NoPath
    /\ result = NoResult
    /\ gp = NoGenericPath
    /\ env = NoEnv
    /\ history = <<>>
    /\ generics \in SeqsUpTo(SynGenericParams, MaxParams)
    /\ language \in Languages
    /\ params = <<>>
    /\ out = <<>>

New ==
    /\ pc = "start"
    /\ params' = GenericParams_new(generics)
    /\ pc' = "built"
    /\ UNCHANGED <<input, result, gp, env, history, generics, language, out>>

Write ==
    /\ pc = "built"
    /\ out' = write(params, language, out)
    /\ pc' = "written"
    /\ UNCHANGED <<input, result, gp, env, history, generics, language, params>>

NextWrite == New \/ Write

SpecWrite == InitWrite /\ [][NextWrite]_vars

----------------------------------------------------------------------------
(* What the properties speak of.                                           *)

\* The last segment of a syn path.
LastSegment(path) == path.segments[Len(path.segments)]

\* A load has run on input.
Loaded == pc = "loaded" /\ result # NoResult

RECURSIVE Positions(_)
\* The nodes of a GenericPath tree: a node is the indexes of the generic
\* arguments that lead to it from the root, <<>> being the root.
Positions(g) ==
    {<<>>} \cup
    UNION {{<<i>> \o q : q \in Positions(g.generics[i].generic_path)} :
              i \in DOMAIN g.generics}

RECURSIVE NodeAt(_, _)
\* The GenericPath at a node.
NodeAt(g, pos) ==
    IF pos = <<>>
    THEN g
    ELSE NodeAt(g.generics[Head(pos)].generic_path, Tail(pos))

\* The step taken is the pass op.
IsStep(op) == history' = Append(history, op)

\* The GenericPath as it was constructed.
Constructed == result.value

----------------------------------------------------------------------------
(* Properties of load (SpecLoad).                                          *)

\* C1, as stated: for every base identifier, PhantomData included, load of a
\* path whose last segment has a parenthesized argument list fails with the
\* parentheses error.
C1_ParenthesizedAlwaysFails ==
    (Loaded /\ LastSegment(input).arguments.tag = "Parenthesized")
        => result = Err(ParenthesesError)

\* C1, amended: load of a path whose last segment has a parenthesized
\* argument list fails with the parentheses error when the last identifier
\* is not PhantomData, and succeeds with no arguments when it is.
C1_ParenthesizedFailsUnlessPhantomData ==
    (Loaded /\ LastSegment(input).arguments.tag = "Parenthesized")
        => IF LastSegment(input).ident = "PhantomData"
           THEN /\ result.tag = "Ok"
                /\ result.value.generics = <<>>
           ELSE result = Err(ParenthesesError)

C1_Witness ==
    /\ Loaded
    /\ LastSegment(input).arguments.tag = "Parenthesized"
    /\ LastSegment(input).arguments.args # <<>>
    /\ LastSegment(input).ident = "Foo"
    /\ result.tag = "Err"

\* C2: when the last identifier is PhantomData, load succeeds with a
\* GenericPath of no arguments, whatever the arguments of the segment.
C2_PhantomDataLoadsEmpty ==
    (Loaded /\ LastSegment(input).ident = "PhantomData")
        => /\ result.tag = "Ok"
           /\ result.value.path = PathNew("PhantomData")
           /\ result.value.generics = <<>>

C2_Witness ==
    /\ Loaded
    /\ LastSegment(input).ident = "PhantomData"
    /\ LastSegment(input).arguments.tag = "AngleBracketed"
    /\ \E i \in DOMAIN LastSegment(input).arguments.args :
          LastSegment(input).arguments.args[i] = ArgConst
    /\ \E i \in DOMAIN LastSegment(input).arguments.args :
          LastSegment(input).arguments.args[i] = ArgType(SynTypeUnsupported)
    /\ result.tag = "Ok"

\* A generic argument that makes load fail: one that is neither a type nor
\* a lifetime, or a type whose load fails.
ArgFails(x) ==
    \/ x.tag \notin {"Type", "Lifetime"}
    \/ x.tag = "Type" /\ Type_load(x.ty).tag = "Err"

\* The failure such an argument gives.
ArgFailure(x) ==
    IF x.tag = "Type" THEN Type_load(x.ty) ELSE Err(CantHandleError(x))

\* A generic argument that puts a type in the arguments list.
ArgGivesType(x) ==
    /\ x.tag = "Type"
    /\ Type_load(x.ty).tag = "Ok"
    /\ Type_load(x.ty).value.tag = "Some"

\* C6: for a last identifier other than PhantomData with an angle-bracketed
\* argument list, load fails with the failure of the first argument that
\* fails (a type whose load fails: that failure; neither a type nor a
\* lifetime: a failure naming the argument); when none fails, the arguments
\* are the loaded types in source order, lifetimes left out, export_name is
\* the name of the base and ctype is absent.
C6_AngleBracketedFailFast ==
    (/\ Loaded
     /\ LastSegment(input).ident # "PhantomData"
     /\ LastSegment(input).arguments.tag = "AngleBracketed")
        => LET args == LastSegment(input).arguments.args
               failing == {i \in DOMAIN args : ArgFails(args[i])}
               kept == SelectSeq(args, ArgGivesType)
           IN  IF failing # {}
               THEN LET first == CHOOSE i \in failing :
                                    \A j \in failing : i <= j
                    IN  result = ArgFailure(args[first])
               ELSE /\ result.tag = "Ok"
                    /\ Len(result.value.generics) = Len(kept)
                    /\ \A i \in 1..Len(kept) :
                          result.value.generics[i]
                              = Type_load(kept[i].ty).value.value
                    /\ result.value.path = PathNew(LastSegment(input).ident)
                    /\ result.value.export_name = LastSegment(input).ident
                    /\ result.value.ctype = None

C6_Witness ==
    /\ Loaded
    /\ LastSegment(input).ident = "Foo"
    /\ LastSegment(input).arguments.tag = "AngleBracketed"
    /\ Len(LastSegment(input).arguments.args) = 2
    /\ LastSegment(input).arguments.args[1] = ArgLifetime
    /\ LastSegment(input).arguments.args[2].tag = "Type"
    /\ result.tag = "Ok"
    /\ Len(result.value.generics) = 1
    /\ result.value.generics[1].generic_path.path = PathNew("T")

----------------------------------------------------------------------------
(* Properties of the passes (Spec).                                        *)

\* C3: a rename_for_config step decides every node by itself, at every
\* depth: a node whose path is one of the generic parameters keeps its
\* export_name, every other node's export_name becomes the configuration's
\* rename of the export_name it had.
C3_RenameDecidesEachNode ==
    [][IsStep("rename_for_config")
        => /\ Positions(gp') = Positions(gp)
           /\ \A pos \in Positions(gp) :
                 LET before == NodeAt(gp, pos)
                     after == NodeAt(gp', pos)
                 IN  after.export_name =
                         IF GenericParams_contains(env.generic_params,
                                                   before.path)
                         THEN before.export_name
                         ELSE ExportConfig_rename(env.config.export,
                                                  before.export_name)]_vars

\* Wrapper<Inner> renamed by a configuration that changes every name, the
\* inner node a generic parameter: the outer node is renamed, the inner kept.
C3_Witness ==
    /\ history = <<"rename_for_config">>
    /\ env.config.export.prefix = "cb_"
    /\ env.generic_params = <<PathNew("T")>>
    /\ Len(gp.generics) = 2
    /\ gp.path = PathNew("Foo") /\ gp.export_name = "cb_Foo"
    /\ NodeAt(gp, <<1>>).path = PathNew("T")
    /\ NodeAt(gp, <<1>>).export_name = "T"
    /\ NodeAt(gp, <<2>>).path = PathNew("Self")
    /\ NodeAt(gp, <<2>>).export_name = "cb_Self"

\* C4: a replace_self_with step rewrites exactly the nodes whose path is
\* named Self, at every depth: such a node gets the self type as its path
\* and the self type's name as its export_name; every other node keeps its
\* path and export_name; a tree with no path named Self is left as it was.
C4_ReplaceRewritesExactlySelf ==
    [][IsStep("replace_self_with")
        => /\ Positions(gp') = Positions(gp)
           /\ \A pos \in Positions(gp) :
                 LET before == NodeAt(gp, pos)
                     after == NodeAt(gp', pos)
                 IN  IF PathName(before.path) = "Self"
                     THEN /\ after.path = env.self_ty
                          /\ after.export_name = PathName(env.self_ty)
                     ELSE /\ after.path = before.path
                          /\ after.export_name = before.export_name
           /\ (\A pos \in Positions(gp) :
                  PathName(NodeAt(gp, pos).path) # "Self") => gp' = gp]_vars

\* Foo<Self>, nested two deep, with Self replaced by Foo.
C4_Witness ==
    /\ history = <<"replace_self_with">>
    /\ env.self_ty = PathNew("Foo")
    /\ Constructed.path = PathNew("T")
    /\ <<1, 1>> \in Positions(gp)
    /\ NodeAt(Constructed, <<1, 1>>).path = PathNew("Self")
    /\ NodeAt(gp, <<1, 1>>).path = PathNew("Foo")
    /\ NodeAt(gp, <<1, 1>>).export_name = "Foo"
    /\ gp.path = PathNew("T")

\* C5: a resolve_declaration_types step sets ctype to what the resolver
\* holds for the path of the node: the kind when the resolver has the path,
\* none when it has not, whatever ctype was before.
C5_ResolveIsLookup ==
    [][IsStep("resolve_declaration_types")
        => IF \E e \in env'.resolver : e[1] = gp.path
           THEN \E e \in env'.resolver :
                   e[1] = gp.path /\ gp'.ctype = Some(e[2])
           ELSE gp'.ctype = None]_vars

\* Self resolved to nothing, replaced by Foo, then resolved to a struct.
C5_Witness ==
    /\ history = <<"resolve_declaration_types", "replace_self_with",
                   "resolve_declaration_types">>
    /\ Constructed.path = PathNew("Self")
    /\ gp.path = PathNew("Foo")
    /\ env.resolver # {}
    /\ gp.ctype = Some("Struct")

RECURSIVE KeepsFrame(_, _, _, _, _)
\* A step from the tree before to the tree after keeps the frame of the
\* tree made at construction, at this node and below: export_name changes
\* only if the step may rename, the node has the arguments it was made with,
\* as many and each in its place, and its path is the one it was made with
\* or, for a path named Self, the self type.
KeepsFrame(after, before, made, self_ty, mayRename) ==
    /\ after.export_name # before.export_name => mayRename
    /\ Len(after.generics) = Len(made.generics)
    /\ Len(before.generics) = Len(made.generics)
    /\ \/ after.path = made.path
       \/ PathName(made.path) = "Self" /\ after.path = self_ty
    /\ \A i \in DOMAIN made.generics :
          KeepsFrame(after.generics[i].generic_path,
                     before.generics[i].generic_path,
                     made.generics[i].generic_path, self_ty, mayRename)

\* C7: in any sequence of the passes, export_name changes, at any node, only
\* in a replace_self_with or rename_for_config step; the tree keeps the
\* nodes it had at construction, each with the path it had or, for a path
\* named Self, the self type; and a resolve_declaration_types step leaves
\* path, export_name and generics as they were.
C7_FrameOfThePasses ==
    [][/\ KeepsFrame(gp', gp, Constructed, env.self_ty,
                     IsStep("replace_self_with")
                         \/ IsStep("rename_for_config"))
       /\ IsStep("resolve_declaration_types")
             => /\ gp'.path = gp.path
                /\ gp'.export_name = gp.export_name
                /\ gp'.generics = gp.generics]_vars

\* The three passes, resolve_declaration_types last, on a path of two
\* arguments whose export_name is no longer the one it was constructed with.
C7_Witness ==
    /\ Len(history) = 3
    /\ history[3] = "resolve_declaration_types"
    /\ {history[i] : i \in 1..3} =
          {"replace_self_with", "rename_for_config",
           "resolve_declaration_types"}
    /\ Len(gp.generics) = 2
    /\ gp.export_name # Constructed.export_name
    /\ gp.ctype # None

\* C9: replace_self_with right after replace_self_with, with the same self
\* type, changes nothing.
C9_ReplaceIdempotent ==
    [][(/\ history # <<>>
        /\ history[Len(history)] = "replace_self_with"
        /\ IsStep("replace_self_with"))
        => gp' = gp]_vars

\* Self<Self> after two replace_self_with in a row.
C9_Witness ==
    /\ history = <<"replace_self_with", "replace_self_with">>
    /\ env.self_ty = PathNew("Foo")
    /\ Constructed.path = PathNew("Self")
    /\ <<1>> \in Positions(Constructed)
    /\ NodeAt(Constructed, <<1>>).path = PathNew("Self")
    /\ gp.path = PathNew("Foo")
    /\ NodeAt(gp, <<1>>).path = PathNew("Foo")

\* C10: after replace_self_with, rename_for_config and
\* resolve_declaration_types, once each and in this order, on a loaded
\* GenericPath, every node's export_name is the name of its path if the path
\* is a generic parameter, and the configuration's rename of that name if it
\* is not.  After rename_for_config then replace_self_with, a node
\* constructed with the path Self has the self type's name, not renamed.
C10_LifecycleOrder ==
    /\ history = <<"replace_self_with", "rename_for_config",
                   "resolve_declaration_types">>
          => \A pos \in Positions(gp) :
                LET node == NodeAt(gp, pos)
                IN  node.export_name =
                        IF GenericParams_contains(env.generic_params, node.path)
                        THEN PathName(node.path)
                        ELSE ExportConfig_rename(env.config.export,
                                                 PathName(node.path))
    /\ (/\ Len(history) >= 2
        /\ history[1] = "rename_for_config"
        /\ history[2] = "replace_self_with"
        /\ \A i \in 3..Len(history) : history[i] = "resolve_declaration_types")
          => \A pos \in Positions(gp) :
                PathName(NodeAt(Constructed, pos).path) = "Self"
                    => NodeAt(gp, pos).export_name = PathName(env.self_ty)

\* T<Self> in an impl of Foo, T a generic parameter, after the three passes
\* in order: the outer node keeps T, the inner one is Foo, renamed.
C10_Witness ==
    /\ history = <<"replace_self_with", "rename_for_config",
                   "resolve_declaration_types">>
    /\ env.self_ty = PathNew("Foo")
    /\ env.generic_params = <<PathNew("T")>>
    /\ Constructed.path = PathNew("T")
    /\ <<1>> \in Positions(Constructed)
    /\ NodeAt(Constructed, <<1>>).path = PathNew("Self")
    /\ gp.export_name = "T"
    /\ NodeAt(gp, <<1>>).path = PathNew("Foo")
    /\ NodeAt(gp, <<1>>).export_name = "RenamedFoo"

----------------------------------------------------------------------------
(* Properties of GenericParams (SpecWrite).                                *)

RECURSIVE Text(_)
\* The text a sequence of writes makes.
Text(w) == IF w = <<>> THEN "" ELSE Head(w) \o Text(Tail(w))

RECURSIVE TypenameList(_)
\* The parameters as typenames, separated by commas, first to last.
TypenameList(ps) ==
    IF Len(ps) = 1
    THEN "typename " \o PathName(ps[1])
    ELSE TypenameList(SubSeq(ps, 1, Len(ps) - 1))
             \o ", typename " \o PathName(ps[Len(ps)])

\* C8: writing a GenericParams emits, when the list is not empty and the
\* language is C++, one template header naming every parameter as a
\* typename, separated by commas, in order, then a line break; and nothing
\* otherwise.
C8_TemplateHeader ==
    pc = "written"
        => IF params # <<>> /\ language = "Cxx"
           THEN Text(out) = "template<" \o TypenameList(params) \o ">\n"
           ELSE out = <<>>

C8_Witness ==
    /\ pc = "written"
    /\ language = "Cxx"
    /\ params = <<PathNew("T"), PathNew("U")>>
    /\ Len(generics) = 3
    /\ Text(out) = "template<typename T, typename U>\n"

====
